---- MODULE Spec2Model ----
(***************************************************************************)
(* Model of services/storage.py: the key resolver (StorageBase), the R2    *)
(* provider (R2Storage) and the media-bundle orchestrator built on it.     *)
(*                                                                         *)
(* Strings (keys, prefixes, URLs, payloads, ids) are sequences of tokens;  *)
(* the token "/" is the slash character and every other token stands for a *)
(* non-empty slash-free piece of text.  Python's None is the one-token     *)
(* sequence None, a dict is a function with a string domain.               *)
(***************************************************************************)
EXTENDS Integers, Sequences, FiniteSets, TLC

VARIABLES
    base_path,        \* StorageBase.base_path, as stored by __init__
    public_base_url,  \* R2Storage.public_base_url
    signer_ok,        \* whether the client can presign with its credentials
    store,            \* the bucket: resolved key -> stored object
    clock,            \* the wall clock, in milliseconds
    frames,           \* per caller: the call in progress or last finished
    ncalls,           \* number of calls begun so far
    rkey,             \* resolver harness: the logical key handed to resolve_key
    rres,             \* resolver harness: the outcome of resolve_key
    ctor,             \* constructor harness: arguments, environment, outcome
    cli               \* the r2_upload command: options, environment, outcome

vars == <<base_path, public_base_url, signer_ok, store, clock, frames, ncalls, rkey, rres,
          ctor, cli>>

(***************************************************************************)
(* Bounds of the model.                                                    *)
(***************************************************************************)
MaxCalls == 2       \* calls begun in one behaviour
MaxTicks == 1       \* milliseconds the clock may advance
MaxKeyLen == 3      \* length of the logical keys handed to the resolver

MsPerSecond == 1000

(***************************************************************************)
(* Values.                                                                 *)
(***************************************************************************)
None == <<"None">>
JsonNull == <<"null">>
NoExpiry == -1                     \* expires_in=None (an int otherwise)
EmptyDict == [k \in {} |-> <<>>]

Slash == "/"
Assets == {"audio", "video", "art"}
SlotFields == {"links", "keys", "versions", "etags"}

Callers == {"c1", "c2"}

\* {**a, **b}: the entries of b win.
Merge(a, b) == b @@ a

Last(s) == s[Len(s)]
Front(s) == SubSeq(s, 1, Len(s) - 1)

RECURSIVE LStrip(_)
LStrip(s) == IF s # <<>> /\ Head(s) = Slash THEN LStrip(Tail(s)) ELSE s

RECURSIVE RStrip(_)
RStrip(s) == IF s # <<>> /\ Last(s) = Slash THEN RStrip(Front(s)) ELSE s

Strip(s) == RStrip(LStrip(s))

\* StorageBase.__init__: the base path kept by the provider.
InitBasePath(arg) == Strip(arg)

(***************************************************************************)
(* StorageBase.resolve_key.  ResolveRaises(key) is the guard of the raise; *)
(* ResolveKey(key) is the value returned otherwise.                        *)
(***************************************************************************)
ResolveRaises(key) == key = <<>>

\* Mutant of ResolveKey: slashes are stripped at both ends of the key.
ResolveKeyStripBoth(key) ==
    IF base_path # <<>> THEN base_path \o <<Slash>> \o Strip(key) ELSE Strip(key)

ResolveKey(key) ==
    IF base_path # <<>> THEN base_path \o <<Slash>> \o LStrip(key) ELSE LStrip(key)

\* os.path.dirname on a posix path.
RECURSIVE DirHead(_)
DirHead(s) == IF s = <<>> \/ Last(s) = Slash THEN s ELSE DirHead(Front(s))

Dirname(path) ==
    LET head == DirHead(path)
    IN  IF head # <<>> /\ RStrip(head) # <<>> THEN RStrip(head) ELSE head

\* The behaviour starts one millisecond before a second boundary, so that
\* both the second and the millisecond readings change within MaxTicks.
StartClock == MsPerSecond - 1
ClockValues == StartClock..(StartClock + MaxTicks)

LogName(ms) == "upload_log_" \o ToString(ms) \o ".json"

\* mimetypes.guess_type on the names the model uses: only ".json" names
\* have a known extension.
GuessType(path) ==
    IF path # <<>> /\ (Last(path) = "manifest.json"
                       \/ \E t \in ClockValues : Last(path) = LogName(t))
    THEN <<"application/json">>
    ELSE None

(***************************************************************************)
(* The bucket.  An object is its body, content type, metadata and the      *)
(* entity tag the store derives from the body.  A body is raw bytes or the *)
(* text of a JSON document.                                                *)
(***************************************************************************)
Raw(payload) == [fmt |-> "raw", data |-> payload]
Json(doc) == [fmt |-> "json", data |-> doc]

ETagOf(body) ==
    IF body.fmt = "raw" THEN <<"md5">> \o body.data ELSE <<"md5", "json">>

StoredObject(body, content_type, metadata) ==
    [body |-> body, content_type |-> content_type, metadata |-> metadata,
     etag |-> ETagOf(body)]

\* Mutant of Put: an object already stored under the key is kept.
PutIfAbsent(st, k, obj) ==
    [x \in DOMAIN st \cup {k} |-> IF x \in DOMAIN st THEN st[x] ELSE obj]

Put(st, k, obj) == [x \in DOMAIN st \cup {k} |-> IF x = k THEN obj ELSE st[x]]

Remove(st, k) == [x \in DOMAIN st \ {k} |-> st[x]]

\* The requests of one step may fail (a transport or permission error after
\* the client's retries): net.exists is the HEAD behind object_exists and
\* get_object_info, net.put the transfer (upload_fileobj), net.head the HEAD
\* issued after the transfer.
NetOutcomes == [exists : BOOLEAN, put : BOOLEAN, head : BOOLEAN]
NetOk == [exists |-> TRUE, put |-> TRUE, head |-> TRUE]
\* Steps that issue no existence check: the transfer and its HEAD only.
PutOutcomes == {n \in NetOutcomes : n.exists /\ (n.put \/ n.head)}

\* Mutant of ObjectExists: a failed HEAD is not told from a successful one.
ObjectExistsDespiteFailure(st, key, net) == ResolveKey(key) \in DOMAIN st

\* R2Storage.object_exists: any failure of the HEAD reads as absence.
ObjectExists(st, key, net) == net.exists /\ ResolveKey(key) \in DOMAIN st

\* R2Storage.get_object_info: None when the HEAD fails.
HasObjectInfo(st, key, net) == net.exists /\ ResolveKey(key) \in DOMAIN st

GetObjectInfo(st, key) ==
    LET r2_key == ResolveKey(key)
    IN  [key |-> r2_key,
         size_bytes |-> Len(st[r2_key].body.data),
         checksum |-> st[r2_key].etag,
         content_type |-> st[r2_key].content_type,
         metadata |-> st[r2_key].metadata]

(***************************************************************************)
(* R2Storage.upload_file.  The outcome: the bucket afterwards, the error   *)
(* raised ("none" when it returns) and the UploadResult.                   *)
(***************************************************************************)
Outcome(st, err, res, wrote) ==
    [store |-> st, raised |-> err, result |-> res, wrote |-> wrote]

NoResult == [key |-> None, etag |-> None, version_id |-> None]

UploadFile(st, key, file, content_type, metadata, overwrite, net) ==
    IF ResolveRaises(key) THEN Outcome(st, "InvalidKey", NoResult, <<>>)
    ELSE
    LET r2_key == ResolveKey(key)
        ct == IF content_type # None THEN content_type ELSE GuessType(key)
        obj == StoredObject(file, ct, metadata)
    IN  IF ~overwrite /\ ResolveRaises(r2_key)
        THEN Outcome(st, "InvalidKey", NoResult, <<>>)
        ELSE IF ~overwrite /\ ObjectExists(st, r2_key, net)
        THEN Outcome(st, "AlreadyExists", NoResult, <<>>)
        ELSE IF r2_key = <<>> \/ ~net.put
        THEN Outcome(st, "TransportError", NoResult, <<>>)
        ELSE IF ~net.head
        THEN Outcome(Put(st, r2_key, obj), "TransportError", NoResult, <<r2_key>>)
        ELSE Outcome(Put(st, r2_key, obj), "none",
                     [key |-> r2_key, etag |-> obj.etag, version_id |-> None],
                     <<r2_key>>)

(***************************************************************************)
(* R2Storage.build_url.  Presigning is a local computation on the client's *)
(* credentials: it fails for a client that cannot sign, and then for every *)
(* call, and the client rejects an empty object key.                       *)
(***************************************************************************)
CanSign(r2_key) == signer_ok /\ r2_key # <<>>

SignedUrl(r2_key, expires_in) ==
    <<"https://r2", Slash>> \o r2_key \o <<"?X-Amz-Expires=", ToString(expires_in)>>

PublicUrl(r2_key) == RStrip(public_base_url) \o <<Slash>> \o r2_key

BuildUrl(key, expires_in) ==
    LET r2_key == ResolveKey(key)
    IN  IF expires_in # NoExpiry /\ expires_in # 0
        THEN IF CanSign(r2_key) THEN SignedUrl(r2_key, expires_in) ELSE None
        ELSE IF public_base_url # None /\ public_base_url # <<>>
        THEN PublicUrl(r2_key)
        ELSE None

\* build_url(key, expires_in=e) or build_url(key)
UrlOrPublic(key, expires_in) ==
    IF BuildUrl(key, expires_in) # None /\ BuildUrl(key, expires_in) # <<>>
    THEN BuildUrl(key, expires_in)
    ELSE BuildUrl(key, NoExpiry)

(***************************************************************************)
(* json.dumps / json.loads on the documents the orchestrator writes: None  *)
(* becomes null and back; strings, numbers and objects keep their shape.   *)
(***************************************************************************)
EncNull(v) == IF v = None THEN JsonNull ELSE v
DecNull(v) == IF v = JsonNull THEN None ELSE v

JsonDumps(m) ==
    [k \in DOMAIN m |->
        IF k \in SlotFields THEN [a \in DOMAIN m[k] |-> EncNull(m[k][a])]
        ELSE IF k \in {"uploader_id", "user_id", "size_bytes", "content_type", "checksum"}
        THEN EncNull(m[k])
        ELSE m[k]]

JsonLoads(doc) ==
    [k \in DOMAIN doc |->
        IF k \in SlotFields THEN [a \in DOMAIN doc[k] |-> DecNull(doc[k][a])]
        ELSE IF k \in {"uploader_id", "user_id", "size_bytes", "content_type", "checksum"}
        THEN DecNull(doc[k])
        ELSE doc[k]]

\* Mutant of PutJson: a document already stored under the key is kept.
PutJsonKeepsFirst(st, key, payload, metadata, net) ==
    IF ~ResolveRaises(key) /\ ResolveKey(key) \in DOMAIN st
    THEN Outcome(st, "none",
                 [key |-> ResolveKey(key), etag |-> st[ResolveKey(key)].etag,
                  version_id |-> None], <<>>)
    ELSE UploadFile(st, key, Json(JsonDumps(payload)), <<"application/json">>,
                    metadata, TRUE, net)

\* R2Storage._put_json
PutJson(st, key, payload, metadata, net) ==
    UploadFile(st, key, Json(JsonDumps(payload)), <<"application/json">>,
               metadata, TRUE, net)

\* self.bucket: the bucket the command was given, when the command built the
\* provider
Bucket == IF cli.state = "unused" THEN <<"media">> ELSE cli.bucket

\* Mutant of NormalizedPrefix: the default prefix does not name the song.
NormalizedPrefixShared(prefix, song_id) ==
    IF prefix # None /\ prefix # <<>> THEN Strip(prefix)
    ELSE <<"songs">>

\* normalized_prefix of upload_media_bundle and replace_media_asset
NormalizedPrefix(prefix, song_id) ==
    IF prefix # None /\ prefix # <<>> THEN Strip(prefix)
    ELSE <<"songs", Slash>> \o song_id

AssetKey(prefix, song_id, a) == NormalizedPrefix(prefix, song_id) \o <<Slash, a>>
ManifestKey(prefix, song_id) ==
    NormalizedPrefix(prefix, song_id) \o <<Slash, "manifest.json">>

DefaultContentType(a) ==
    CASE a = "audio" -> <<"audio/mpeg">>
      [] a = "video" -> <<"video/mp4">>
      [] a = "art" -> <<"image/jpeg">>

AssetTags(metadata, song_id, a) ==
    Merge(metadata, [song_id |-> song_id, type |-> <<a>>])

ManifestTags(song_id) == [song_id |-> song_id, type |-> <<"manifest">>]

(***************************************************************************)
(* R2Storage._write_object_log.  key is the key of an UploadResult.        *)
(***************************************************************************)
LogKey(key, now) == Dirname(ResolveKey(key)) \o <<Slash, LogName(now)>>

LogPayload(st, key, song_id, user_id, net, now) ==
    LET has == HasObjectInfo(st, key, net)
    IN  [song_id |-> song_id,
         user_id |-> user_id,
         key |-> IF has THEN GetObjectInfo(st, key).key ELSE ResolveKey(key),
         status |-> IF ObjectExists(st, key, net) THEN "available" ELSE "not_found",
         size_bytes |-> IF has THEN <<ToString(GetObjectInfo(st, key).size_bytes)>>
                        ELSE None,
         content_type |-> IF has THEN GetObjectInfo(st, key).content_type ELSE None,
         checksum |-> IF has THEN GetObjectInfo(st, key).checksum ELSE None,
         timestamp |-> now \div MsPerSecond]

WriteObjectLog(st, key, song_id, user_id, net, now) ==
    PutJson(st, LogKey(key, now),
            LogPayload(st, key, song_id, user_id, net, now),
            [song_id |-> song_id, type |-> <<"upload_log">>], net)

(***************************************************************************)
(* R2Storage.update_metadata.  The info lookup is handed the resolved key   *)
(* and resolves it again.  Without an info record the copy request carries  *)
(* ContentType=None, which the client rejects before sending anything.  An  *)
(* empty Metadata of the HEAD response reads as no metadata.                *)
(***************************************************************************)
UpdateMetadata(st, key, metadata, merge, net, copy_ok) ==
    IF ResolveRaises(key) THEN Outcome(st, "InvalidKey", NoResult, <<>>)
    ELSE
    LET r2_key == ResolveKey(key)
        has == HasObjectInfo(st, r2_key, net)
        current == IF has THEN GetObjectInfo(st, r2_key).metadata ELSE EmptyDict
        new_metadata == IF merge THEN Merge(current, metadata) ELSE metadata
    IN  IF ResolveRaises(r2_key) THEN Outcome(st, "InvalidKey", NoResult, <<>>)
        ELSE IF ~has THEN Outcome(st, "ParamValidation", NoResult, <<>>)
        ELSE IF ~copy_ok \/ r2_key \notin DOMAIN st
        THEN Outcome(st, "TransportError", NoResult, <<>>)
        ELSE Outcome([st EXCEPT ![r2_key] =
                         [@ EXCEPT !.metadata = new_metadata,
                                   !.content_type = GetObjectInfo(st, r2_key).content_type]],
                     "none",
                     [key |-> r2_key, etag |-> st[r2_key].etag, version_id |-> None],
                     <<r2_key>>)

\* R2Storage.delete_object: the store's DELETE succeeds on an absent key.
DeleteObject(st, key, missing_ok, del_ok) ==
    IF ResolveRaises(key) THEN Outcome(st, "InvalidKey", NoResult, <<>>)
    ELSE IF del_ok THEN Outcome(Remove(st, ResolveKey(key)), "none", NoResult, <<>>)
    ELSE IF ~missing_ok THEN Outcome(st, "TransportError", NoResult, <<>>)
    ELSE Outcome(st, "none", NoResult, <<>>)

(***************************************************************************)
(* The manifest of upload_media_bundle, and the read-modify-write of       *)
(* replace_media_asset.                                                    *)
(***************************************************************************)
SlotOf(ups, a, field) == IF a \in DOMAIN ups THEN ups[a][field] ELSE None
UrlOf(urls, a) == IF a \in DOMAIN urls THEN urls[a] ELSE None

\* Mutant of BundleManifest: the key of every asset slot is recorded whether
\* or not the asset was uploaded.
BundleManifestEagerKeys(args, ts, ups, urls) ==
    [song_id |-> args.song_id,
     uploaded_at |-> ts,
     bucket |-> Bucket,
     prefix |-> NormalizedPrefix(args.prefix, args.song_id),
     links |-> [a \in Assets |-> UrlOf(urls, a)],
     keys |-> [a \in Assets |-> ResolveKey(AssetKey(args.prefix, args.song_id, a))],
     metadata |-> args.metadata,
     uploader_id |-> args.user_id,
     versions |-> [a \in Assets |-> SlotOf(ups, a, "version_id")],
     etags |-> [a \in Assets |-> SlotOf(ups, a, "etag")]]

BundleManifest(args, ts, ups, urls) ==
    [song_id |-> args.song_id,
     uploaded_at |-> ts,
     bucket |-> Bucket,
     prefix |-> NormalizedPrefix(args.prefix, args.song_id),
     links |-> [a \in Assets |-> UrlOf(urls, a)],
     keys |-> [a \in Assets |-> SlotOf(ups, a, "key")],
     metadata |-> args.metadata,
     uploader_id |-> args.user_id,
     versions |-> [a \in Assets |-> SlotOf(ups, a, "version_id")],
     etags |-> [a \in Assets |-> SlotOf(ups, a, "etag")]]

\* Mutant of FreshManifest: the fresh manifest starts with empty mappings.
FreshManifestNoSlots(args) ==
    [song_id |-> args.song_id,
     bucket |-> Bucket,
     prefix |-> NormalizedPrefix(args.prefix, args.song_id),
     links |-> EmptyDict,
     keys |-> EmptyDict,
     metadata |-> EmptyDict]

FreshManifest(args) ==
    [song_id |-> args.song_id,
     bucket |-> Bucket,
     prefix |-> NormalizedPrefix(args.prefix, args.song_id),
     links |-> [a \in Assets |-> None],
     keys |-> [a \in Assets |-> None],
     metadata |-> EmptyDict]

\* with self.open_stream(manifest_key) as fh: json.loads(fh.read())
ManifestReadable(st, manifest_key, get_ok) ==
    /\ get_ok
    /\ ResolveKey(manifest_key) \in DOMAIN st
    /\ st[ResolveKey(manifest_key)].body.fmt = "json"

\* Mutant of ReadManifest: a manifest in the bucket is used even when reading
\* it failed.
ReadManifestKeepsStored(st, args, get_ok) ==
    IF ManifestReadable(st, ManifestKey(args.prefix, args.song_id), TRUE)
    THEN JsonLoads(st[ResolveKey(ManifestKey(args.prefix, args.song_id))].body.data)
    ELSE FreshManifest(args)

ReadManifest(st, args, get_ok) ==
    IF ManifestReadable(st, ManifestKey(args.prefix, args.song_id), get_ok)
    THEN JsonLoads(st[ResolveKey(ManifestKey(args.prefix, args.song_id))].body.data)
    ELSE FreshManifest(args)

\* d.setdefault(field, default)
SetDefault(d, field, default) ==
    IF field \in DOMAIN d THEN d ELSE (field :> default) @@ d

\* d.setdefault(field, {})[k] = v
SetSlot(d, field, k, v) ==
    LET e == SetDefault(d, field, EmptyDict)
    IN  [e EXCEPT ![field] = (k :> v) @@ e[field]]

SetField(d, field, v) == (field :> v) @@ d

\* Mutant of UpdateManifest: the slot records the logical key of the asset,
\* not the key the upload returned.
UpdateManifestLogicalKey(m, args, up, now) ==
    LET m1 == SetSlot(m, "keys", args.asset,
                      AssetKey(args.prefix, args.song_id, args.asset))
        m2 == SetSlot(m1, "links", args.asset, UrlOrPublic(up.key, args.url_expires_in))
    IN  SetField(m2, "uploaded_at", now \div MsPerSecond)

\* lines 633-641 of replace_media_asset
UpdateManifest(m, args, up, now) ==
    LET m1 == SetSlot(m, "keys", args.asset, up.key)
        m2 == SetSlot(m1, "links", args.asset, UrlOrPublic(up.key, args.url_expires_in))
        m3 == SetField(m2, "uploaded_at", now \div MsPerSecond)
        m4 == IF args.metadata # EmptyDict
              THEN LET e == SetDefault(m3, "metadata", EmptyDict)
                   IN  [e EXCEPT !["metadata"] = Merge(e["metadata"], args.metadata)]
              ELSE m3
    IN  IF args.user_id # None /\ args.user_id # <<>>
        THEN SetField(m4, "uploader_id", args.user_id)
        ELSE m4

\* d.get(k)
DictGet(d, k) == IF k \in DOMAIN d THEN d[k] ELSE None

MediaBundleResult(song_id, keys, links, manifest_key, manifest_url) ==
    [song_id |-> song_id,
     audio_key |-> keys["audio"], video_key |-> keys["video"], art_key |-> keys["art"],
     audio_url |-> links["audio"], video_url |-> links["video"], art_url |-> links["art"],
     manifest_key |-> manifest_key, manifest_url |-> manifest_url]

(***************************************************************************)
(* Inputs.                                                                 *)
(***************************************************************************)
BasePathArgs == {<<>>, <<"p">>, <<Slash, "p", Slash>>}
PublicBaseUrls == {None, <<"https://cdn", Slash>>}
SongIds == {<<>>, <<"s1">>}
Payloads == {<<"B1">>, <<"B2">>}
OptPayloads == {None, <<"B1">>}
MetadataArgs == {EmptyDict, [genre |-> <<"rock">>]}
\* who calls the orchestrator: an anonymous caller passing no metadata, or
\* an uploader passing its id and metadata
Uploaders == {[user_id |-> None, metadata |-> EmptyDict],
              [user_id |-> <<"u1">>, metadata |-> [genre |-> <<"rock">>]]}
AudioArgs == {<<"B1">>}
ReplaceArgs == {<<"B2">>}
PrefixArgs == {None}
ExpiresArgs == {3600}
FileKeys == {<<>>, <<"a">>, <<Slash, "a">>, <<"p", Slash, "a">>}
KeyChars == {Slash, "a", "b"}

RECURSIVE KeysUpTo(_)
KeysUpTo(n) ==
    IF n = 0 THEN {<<>>}
    ELSE KeysUpTo(n - 1) \cup
         {Append(k, c) : k \in {x \in KeysUpTo(n - 1) : Len(x) = n - 1}, c \in KeyChars}

(***************************************************************************)
(* Calls.  A frame is the call a caller has in progress, or the one it     *)
(* finished last: its arguments, its position, its locals, the bucket as   *)
(* it was when the call began and the keys it has written so far.          *)
(***************************************************************************)
IdleFrame ==
    [op |-> "none", args |-> EmptyDict, pc |-> "idle", error |-> "none",
     result |-> EmptyDict, pre |-> EmptyDict, writes |-> <<>>, ups |-> EmptyDict,
     urls |-> EmptyDict, manifest |-> EmptyDict, manifest_url |-> None, ts |-> 0,
     failed_at |-> "none", read_ok |-> TRUE, net |-> NetOk, del_ok |-> TRUE,
     copy_ok |-> TRUE, transfer |-> [mode |-> "none"]]

NewFrame(op, args, pc) ==
    [IdleFrame EXCEPT !.op = op, !.args = args, !.pc = pc, !.pre = store,
                      !.ts = clock \div MsPerSecond]

Raised(f, step, err, wrote) ==
    [f EXCEPT !.pc = "raised", !.error = err, !.failed_at = step,
              !.writes = @ \o wrote]

\* A caller makes its next call once the last one has returned; a caller
\* whose call raised stops there (the error ends the command).
CanBegin(p) == frames[p].pc \in {"idle", "done"} /\ ncalls < MaxCalls

Config == <<base_path, public_base_url, signer_ok>>
Harness == <<rkey, rres, ctor, cli>>

\* upload_file called by a client of the provider
CallUploadFile(p) ==
    /\ CanBegin(p)
    /\ \E key \in FileKeys, file \in Payloads, metadata \in MetadataArgs,
          overwrite \in BOOLEAN, net \in NetOutcomes :
          LET out == UploadFile(store, key, Raw(file), None, metadata, overwrite, net)
              f0 == [NewFrame("upload_file",
                              [key |-> key, file |-> file, metadata |-> metadata,
                               overwrite |-> overwrite], "call")
                        EXCEPT !.net = net]
          IN  /\ store' = out.store
              /\ frames' = [frames EXCEPT ![p] =
                    IF out.raised = "none"
                    THEN [f0 EXCEPT !.pc = "done", !.result = out.result,
                                    !.writes = out.wrote]
                    ELSE Raised(f0, "upload", out.raised, out.wrote)]
    /\ ncalls' = ncalls + 1
    /\ UNCHANGED <<Config, clock, Harness>>

\* delete_object called by a client of the provider
CallDeleteObject(p) ==
    /\ CanBegin(p)
    /\ \E key \in FileKeys, missing_ok \in BOOLEAN, del_ok \in BOOLEAN :
          LET out == DeleteObject(store, key, missing_ok, del_ok)
              f0 == [NewFrame("delete_object",
                              [key |-> key, missing_ok |-> missing_ok], "call")
                        EXCEPT !.del_ok = del_ok]
          IN  /\ store' = out.store
              /\ frames' = [frames EXCEPT ![p] =
                    IF out.raised = "none"
                    THEN [f0 EXCEPT !.pc = "done"]
                    ELSE Raised(f0, "delete", out.raised, <<>>)]
    /\ ncalls' = ncalls + 1
    /\ UNCHANGED <<Config, clock, Harness>>

\* the keys handed to the read operations, the lone slash among them
ProbeKeys == FileKeys \cup {<<Slash>>}
\* the HEAD behind object_exists and get_object_info answers, or fails
HeadOutcomes == {n \in NetOutcomes : n.put /\ n.head}
ExpiresInArgs == {NoExpiry, 0, 3600}
UpdateArgs == {[genre |-> <<"pop">>], [mood |-> <<"calm">>]}

\* object_exists called by a client of the provider
CallObjectExists(p) ==
    /\ CanBegin(p)
    /\ \E key \in ProbeKeys, net \in HeadOutcomes :
          LET f0 == [NewFrame("object_exists", [key |-> key], "call")
                        EXCEPT !.net = net]
          IN  frames' = [frames EXCEPT ![p] =
                IF ResolveRaises(key) THEN Raised(f0, "resolve", "InvalidKey", <<>>)
                ELSE [f0 EXCEPT !.pc = "done",
                                !.result = [value |-> ObjectExists(store, key, net)]]]
    /\ ncalls' = ncalls + 1
    /\ UNCHANGED <<Config, store, clock, Harness>>

\* get_object_info called by a client of the provider
CallGetObjectInfo(p) ==
    /\ CanBegin(p)
    /\ \E key \in ProbeKeys, net \in HeadOutcomes :
          LET f0 == [NewFrame("get_object_info", [key |-> key], "call")
                        EXCEPT !.net = net]
          IN  frames' = [frames EXCEPT ![p] =
                IF ResolveRaises(key) THEN Raised(f0, "resolve", "InvalidKey", <<>>)
                ELSE [f0 EXCEPT !.pc = "done",
                                !.result =
                                    IF HasObjectInfo(store, key, net)
                                    THEN [found |-> TRUE, info |-> GetObjectInfo(store, key)]
                                    ELSE [found |-> FALSE]]]
    /\ ncalls' = ncalls + 1
    /\ UNCHANGED <<Config, store, clock, Harness>>

\* build_url called by a client of the provider
CallBuildUrl(p) ==
    /\ CanBegin(p)
    /\ \E key \in ProbeKeys, expires_in \in ExpiresInArgs :
          LET f0 == NewFrame("build_url", [key |-> key, expires_in |-> expires_in],
                             "call")
          IN  frames' = [frames EXCEPT ![p] =
                IF ResolveRaises(key) THEN Raised(f0, "resolve", "InvalidKey", <<>>)
                ELSE [f0 EXCEPT !.pc = "done",
                                !.result = [url |-> BuildUrl(key, expires_in)]]]
    /\ ncalls' = ncalls + 1
    /\ UNCHANGED <<Config, store, clock, Harness>>

\* update_metadata called by a client of the provider
CallUpdateMetadata(p) ==
    /\ CanBegin(p)
    /\ \E key \in ProbeKeys, metadata \in UpdateArgs, merge \in BOOLEAN,
          net \in HeadOutcomes, copy_ok \in BOOLEAN :
          LET out == UpdateMetadata(store, key, metadata, merge, net, copy_ok)
              f0 == [NewFrame("update_metadata",
                              [key |-> key, metadata |-> metadata, merge |-> merge],
                              "call")
                        EXCEPT !.net = net, !.copy_ok = copy_ok]
          IN  /\ store' = out.store
              /\ frames' = [frames EXCEPT ![p] =
                    IF out.raised = "none"
                    THEN [f0 EXCEPT !.pc = "done", !.result = out.result,
                                    !.writes = out.wrote]
                    ELSE Raised(f0, "update", out.raised, out.wrote)]
    /\ ncalls' = ncalls + 1
    /\ UNCHANGED <<Config, clock, Harness>>

(***************************************************************************)
(* upload_media_bundle, one step per call it makes on the provider.        *)
(***************************************************************************)
\* Mutant of BundleNext: the manifest is written right after the audio, the
\* optional assets after it.
BundleNextManifestEarly(pc, args, ups) ==
    CASE pc = "audio" -> "manifest"
      [] pc = "manifest" -> IF args.video # None THEN "video"
                            ELSE IF args.art # None THEN "art" ELSE "log_audio"
      [] pc = "video" -> IF args.art # None THEN "art" ELSE "log_audio"
      [] pc = "art" -> "log_audio"
      [] pc = "log_audio" -> IF "video" \in DOMAIN ups THEN "log_video"
                             ELSE IF "art" \in DOMAIN ups THEN "log_art" ELSE "done"
      [] pc = "log_video" -> IF "art" \in DOMAIN ups THEN "log_art" ELSE "done"
      [] pc = "log_art" -> "done"

BundleNext(pc, args, ups) ==
    CASE pc = "audio" -> IF args.video # None THEN "video"
                         ELSE IF args.art # None THEN "art" ELSE "manifest"
      [] pc = "video" -> IF args.art # None THEN "art" ELSE "manifest"
      [] pc = "art" -> "manifest"
      [] pc = "manifest" -> "log_audio"
      [] pc = "log_audio" -> IF "video" \in DOMAIN ups THEN "log_video"
                             ELSE IF "art" \in DOMAIN ups THEN "log_art" ELSE "done"
      [] pc = "log_video" -> IF "art" \in DOMAIN ups THEN "log_art" ELSE "done"
      [] pc = "log_art" -> "done"

BundleResult(f) ==
    MediaBundleResult(f.args.song_id,
                      [a \in Assets |-> SlotOf(f.ups, a, "key")],
                      [a \in Assets |-> UrlOf(f.urls, a)],
                      ManifestKey(f.args.prefix, f.args.song_id),
                      f.manifest_url)

BeginBundleWith(p, song_ids) ==
    /\ CanBegin(p)
    /\ \E song_id \in song_ids, audio \in AudioArgs, video \in OptPayloads,
          art \in OptPayloads, who \in Uploaders,
          prefix \in PrefixArgs, url_expires_in \in ExpiresArgs :
          LET f0 == NewFrame("upload_media_bundle",
                             [song_id |-> song_id, audio |-> audio, video |-> video,
                              art |-> art, metadata |-> who.metadata,
                              user_id |-> who.user_id,
                              prefix |-> prefix, url_expires_in |-> url_expires_in],
                             "audio")
          IN  frames' = [frames EXCEPT ![p] =
                IF song_id = <<>> THEN Raised(f0, "begin", "InvalidInput", <<>>)
                ELSE f0]
    /\ ncalls' = ncalls + 1
    /\ UNCHANGED <<Config, store, clock, Harness>>

BeginBundle(p) == BeginBundleWith(p, SongIds)

\* Mutant of AfterAssetUpload: a failed upload is noted and the call goes on.
AfterAssetUploadSwallow(f, a, out) ==
    IF out.raised # "none"
    THEN [f EXCEPT !.pc = BundleNext(a, f.args, f.ups), !.error = out.raised,
                   !.failed_at = a, !.writes = @ \o out.wrote]
    ELSE [f EXCEPT
            !.pc = BundleNext(a, f.args, f.ups),
            !.writes = @ \o out.wrote,
            !.ups = (a :> out.result) @@ @,
            !.urls = (a :> UrlOrPublic(out.result.key, f.args.url_expires_in)) @@ @]

\* the caller's locals after upload_file for asset a ended with out: the
\* error propagates, or the UploadResult and the URL built for it are kept
AfterAssetUpload(f, a, out) ==
    IF out.raised # "none" THEN Raised(f, a, out.raised, out.wrote)
    ELSE [f EXCEPT
            !.pc = BundleNext(a, f.args, f.ups),
            !.writes = @ \o out.wrote,
            !.ups = (a :> out.result) @@ @,
            !.urls = (a :> UrlOrPublic(out.result.key, f.args.url_expires_in)) @@ @]

\* the upload of one asset and the URL built for it
BundleUpload(p, a) ==
    LET f == frames[p] IN
    /\ f.op = "upload_media_bundle" /\ f.pc = a
    /\ \E net \in PutOutcomes :
          LET out == UploadFile(store, AssetKey(f.args.prefix, f.args.song_id, a),
                                Raw(f.args[a]), DefaultContentType(a),
                                AssetTags(f.args.metadata, f.args.song_id, a),
                                TRUE, net)
          IN  /\ store' = out.store
              /\ frames' = [frames EXCEPT ![p] = AfterAssetUpload(f, a, out)]
    /\ UNCHANGED <<Config, clock, ncalls, Harness>>

BundleAudio(p) == BundleUpload(p, "audio")
BundleVideo(p) == BundleUpload(p, "video")
BundleArt(p) == BundleUpload(p, "art")

BundleWriteManifest(p) ==
    LET f == frames[p]
        manifest == BundleManifest(f.args, f.ts, f.ups, f.urls)
        manifest_key == ManifestKey(f.args.prefix, f.args.song_id)
    IN
    /\ f.op = "upload_media_bundle" /\ f.pc = "manifest"
    /\ \E net \in PutOutcomes :
          LET out == PutJson(store, manifest_key, manifest,
                             ManifestTags(f.args.song_id), net)
          IN  /\ store' = out.store
              /\ frames' = [frames EXCEPT ![p] =
                    IF out.raised # "none"
                    THEN Raised(f, "manifest", out.raised, out.wrote)
                    ELSE [f EXCEPT
                            !.pc = BundleNext("manifest", f.args, f.ups),
                            !.writes = @ \o out.wrote,
                            !.manifest = manifest,
                            !.manifest_url = UrlOrPublic(manifest_key,
                                                         f.args.url_expires_in)]]
    /\ UNCHANGED <<Config, clock, ncalls, Harness>>

\* one _write_object_log call; the last one is followed by the return
BundleLog(p, a) ==
    LET f == frames[p]
        step == "log_" \o a
    IN
    /\ f.op = "upload_media_bundle" /\ f.pc = step
    /\ \E net \in PutOutcomes :
          LET out == WriteObjectLog(store, f.ups[a].key, f.args.song_id,
                                    f.args.user_id, net, clock)
              next == BundleNext(step, f.args, f.ups)
          IN  /\ store' = out.store
              /\ frames' = [frames EXCEPT ![p] =
                    IF out.raised # "none" THEN Raised(f, step, out.raised, out.wrote)
                    ELSE [f EXCEPT
                            !.pc = next,
                            !.writes = @ \o out.wrote,
                            !.result = IF next = "done" THEN BundleResult(f) ELSE @]]
    /\ UNCHANGED <<Config, clock, ncalls, Harness>>

BundleLogAudio(p) == BundleLog(p, "audio")
BundleLogVideo(p) == BundleLog(p, "video")
BundleLogArt(p) == BundleLog(p, "art")

(***************************************************************************)
(* replace_media_asset.                                                    *)
(***************************************************************************)
\* Mutant of ReplaceResult: the result is built from the call's own upload,
\* not from the manifest.
ReplaceResultLocal(f) ==
    MediaBundleResult(f.args.song_id,
                      [a \in Assets |-> SlotOf(f.ups, a, "key")],
                      [a \in Assets |-> IF a = f.args.asset
                                        THEN DictGet(f.manifest["links"], a) ELSE None],
                      ManifestKey(f.args.prefix, f.args.song_id),
                      UrlOrPublic(ManifestKey(f.args.prefix, f.args.song_id),
                                  f.args.url_expires_in))

ReplaceResult(f) ==
    MediaBundleResult(f.args.song_id,
                      [a \in Assets |-> DictGet(f.manifest["keys"], a)],
                      [a \in Assets |-> DictGet(f.manifest["links"], a)],
                      ManifestKey(f.args.prefix, f.args.song_id),
                      UrlOrPublic(ManifestKey(f.args.prefix, f.args.song_id),
                                  f.args.url_expires_in))

BeginReplace(p) ==
    /\ CanBegin(p)
    /\ \E song_id \in SongIds, asset \in Assets, file \in ReplaceArgs,
          who \in Uploaders, prefix \in PrefixArgs,
          url_expires_in \in ExpiresArgs :
          frames' = [frames EXCEPT ![p] =
              NewFrame("replace_media_asset",
                       [song_id |-> song_id, asset |-> asset, file |-> file,
                        metadata |-> who.metadata, user_id |-> who.user_id,
                        prefix |-> prefix, url_expires_in |-> url_expires_in],
                       "upload")]
    /\ ncalls' = ncalls + 1
    /\ UNCHANGED <<Config, store, clock, Harness>>

ReplaceUpload(p) ==
    LET f == frames[p] IN
    /\ f.op = "replace_media_asset" /\ f.pc = "upload"
    /\ \E net \in PutOutcomes :
          LET out == UploadFile(store,
                                AssetKey(f.args.prefix, f.args.song_id, f.args.asset),
                                Raw(f.args.file), None,
                                AssetTags(f.args.metadata, f.args.song_id, f.args.asset),
                                TRUE, net)
          IN  /\ store' = out.store
              /\ frames' = [frames EXCEPT ![p] =
                    IF out.raised # "none"
                    THEN Raised(f, "upload", out.raised, out.wrote)
                    ELSE [f EXCEPT !.pc = "read", !.writes = @ \o out.wrote,
                                   !.ups = (f.args.asset :> out.result) @@ @]]
    /\ UNCHANGED <<Config, clock, ncalls, Harness>>

\* the manifest pre-read (or the fresh manifest) and the in-memory update
ReplaceRead(p) ==
    LET f == frames[p] IN
    /\ f.op = "replace_media_asset" /\ f.pc = "read"
    /\ \E get_ok \in BOOLEAN :
          frames' = [frames EXCEPT ![p] =
              [f EXCEPT
                 !.pc = "write",
                 !.read_ok = ManifestReadable(store,
                                 ManifestKey(f.args.prefix, f.args.song_id), get_ok),
                 !.manifest = UpdateManifest(ReadManifest(store, f.args, get_ok),
                                             f.args, f.ups[f.args.asset], clock)]]
    /\ UNCHANGED <<Config, store, clock, ncalls, Harness>>

ReplaceWrite(p) ==
    LET f == frames[p] IN
    /\ f.op = "replace_media_asset" /\ f.pc = "write"
    /\ \E net \in PutOutcomes :
          LET out == PutJson(store, ManifestKey(f.args.prefix, f.args.song_id),
                             f.manifest, ManifestTags(f.args.song_id), net)
          IN  /\ store' = out.store
              /\ frames' = [frames EXCEPT ![p] =
                    IF out.raised # "none"
                    THEN Raised(f, "manifest", out.raised, out.wrote)
                    ELSE [f EXCEPT !.pc = "log", !.writes = @ \o out.wrote]]
    /\ UNCHANGED <<Config, clock, ncalls, Harness>>

ReplaceLog(p) ==
    LET f == frames[p] IN
    /\ f.op = "replace_media_asset" /\ f.pc = "log"
    /\ \E net \in PutOutcomes :
          LET out == WriteObjectLog(store, f.ups[f.args.asset].key, f.args.song_id,
                                    f.args.user_id, net, clock)
          IN  /\ store' = out.store
              /\ frames' = [frames EXCEPT ![p] =
                    IF out.raised # "none"
                    THEN Raised(f, "log", out.raised, out.wrote)
                    ELSE [f EXCEPT !.pc = "done", !.writes = @ \o out.wrote,
                                   !.result = ReplaceResult(f)]]
    /\ UNCHANGED <<Config, clock, ncalls, Harness>>

\* time passes
Tick ==
    /\ clock < StartClock + MaxTicks
    /\ clock' = clock + 1
    /\ UNCHANGED <<Config, store, frames, ncalls, Harness>>

(***************************************************************************)
(* The orchestrator with one client making one call at a time, all within  *)
(* one reading of the clock.                                               *)
(***************************************************************************)
Main == "c1"

Init ==
    /\ base_path \in {InitBasePath(b) : b \in BasePathArgs}
    /\ public_base_url \in PublicBaseUrls
    /\ signer_ok \in BOOLEAN
    /\ store = EmptyDict
    /\ clock = StartClock
    /\ frames = [p \in Callers |-> IdleFrame]
    /\ ncalls = 0
    /\ rkey = <<>>
    /\ rres = [state |-> "unused"]
    /\ ctor = [state |-> "unused"]
    /\ cli = [state |-> "unused"]

Next ==
    \/ BeginBundle(Main)
    \/ BundleAudio(Main)
    \/ BundleVideo(Main)
    \/ BundleArt(Main)
    \/ BundleWriteManifest(Main)
    \/ BundleLogAudio(Main)
    \/ BundleLogVideo(Main)
    \/ BundleLogArt(Main)
    \/ BeginReplace(Main)
    \/ ReplaceUpload(Main)
    \/ ReplaceRead(Main)
    \/ ReplaceWrite(Main)
    \/ ReplaceLog(Main)

Spec == Init /\ [][Next]_vars

(***************************************************************************)
(* The provider's own operations, called by one client on a bucket that    *)
(* starts empty.                                                           *)
(***************************************************************************)
NextFiles ==
    \/ CallUploadFile(Main)
    \/ CallDeleteObject(Main)

SpecFiles == Init /\ [][NextFiles]_vars

(***************************************************************************)
(* The provider's lookups, URLs and metadata updates on what upload_file    *)
(* has stored.                                                              *)
(***************************************************************************)
NextProbe ==
    \/ CallUploadFile(Main)
    \/ CallObjectExists(Main)
    \/ CallGetObjectInfo(Main)
    \/ CallBuildUrl(Main)
    \/ CallUpdateMetadata(Main)

SpecProbe == Init /\ [][NextProbe]_vars

(***************************************************************************)
(* The key resolver alone: resolve_key applied to one logical key under    *)
(* one configured base path.                                               *)
(***************************************************************************)
InitResolve ==
    /\ base_path \in {InitBasePath(b) : b \in BasePathArgs}
    /\ public_base_url = None
    /\ signer_ok = TRUE
    /\ store = EmptyDict
    /\ clock = StartClock
    /\ frames = [p \in Callers |-> IdleFrame]
    /\ ncalls = 0
    /\ rkey \in KeysUpTo(MaxKeyLen)
    /\ rres = [state |-> "pending"]
    /\ ctor = [state |-> "unused"]
    /\ cli = [state |-> "unused"]

CallResolveKey ==
    /\ rres.state = "pending"
    /\ rres' = IF ResolveRaises(rkey) THEN [state |-> "raised"]
               ELSE [state |-> "returned", key |-> ResolveKey(rkey)]
    /\ UNCHANGED <<Config, store, clock, frames, ncalls, rkey, ctor, cli>>

NextResolve == CallResolveKey

SpecResolve == InitResolve /\ [][NextResolve]_vars

(***************************************************************************)
(* Two clients calling replace_media_asset at the same time, once each: the *)
(* steps of the two calls interleave freely, the provider holds no lock.    *)
(***************************************************************************)
FirstCall(p) == frames[p].pc = "idle"

NextRace ==
    \E p \in Callers :
        \/ FirstCall(p) /\ BeginReplace(p)
        \/ ReplaceUpload(p)
        \/ ReplaceRead(p)
        \/ ReplaceWrite(p)
        \/ ReplaceLog(p)

\* a provider with a public base URL and working credentials, an empty bucket
InitShared ==
    /\ base_path \in {<<>>, <<"p">>}
    /\ public_base_url = <<"https://cdn", Slash>>
    /\ signer_ok = TRUE
    /\ store = EmptyDict
    /\ clock = StartClock
    /\ frames = [p \in Callers |-> IdleFrame]
    /\ ncalls = 0
    /\ rkey = <<>>
    /\ rres = [state |-> "unused"]
    /\ ctor = [state |-> "unused"]
    /\ cli = [state |-> "unused"]

SpecRace == InitShared /\ [][NextRace]_vars

(***************************************************************************)
(* Two clients calling upload_media_bundle at the same time, once each and  *)
(* each for its own song.                                                   *)
(***************************************************************************)
SongOf(p) == IF p = Main THEN <<"s1">> ELSE <<"s2">>

NextSongs ==
    \E p \in Callers :
        \/ FirstCall(p) /\ BeginBundleWith(p, {SongOf(p)})
        \/ BundleAudio(p)
        \/ BundleVideo(p)
        \/ BundleArt(p)
        \/ BundleWriteManifest(p)
        \/ BundleLogAudio(p)
        \/ BundleLogVideo(p)
        \/ BundleLogArt(p)

SpecSongs == InitShared /\ [][NextSongs]_vars

(***************************************************************************)
(* upload_media_bundle under a running clock: between any two steps of a    *)
(* call the clock may have advanced, or may read the same millisecond.      *)
(***************************************************************************)
NextClock ==
    \/ BeginBundle(Main)
    \/ BundleAudio(Main)
    \/ BundleVideo(Main)
    \/ BundleArt(Main)
    \/ BundleWriteManifest(Main)
    \/ BundleLogAudio(Main)
    \/ BundleLogVideo(Main)
    \/ BundleLogArt(Main)
    \/ Tick

SpecClock == InitShared /\ [][NextClock]_vars

(***************************************************************************)
(* R2Storage.__init__ alone: one construction from explicit arguments and   *)
(* the process environment.  A setting is None (not passed, not set), the   *)
(* empty string, or a value.                                                *)
(***************************************************************************)
Settings == {"access_key_id", "secret_access_key", "account_id", "endpoint_url"}
SettingValues == {None, <<>>, <<"v">>}

\* Mutant of Falsy: only None counts as missing.
FalsyNoneOnly(v) == v = None

\* not v, for an optional string
Falsy(v) == v = None \/ v = <<>>

\* a or b
PyOr(a, b) == IF Falsy(a) THEN b ELSE a

\* lines 163-176: the settings after arguments and environment are combined
Combined(args, env) ==
    LET account_id == PyOr(args.account_id, env.account_id)
    IN  [access_key_id |-> PyOr(args.access_key_id, env.access_key_id),
         secret_access_key |-> PyOr(args.secret_access_key, env.secret_access_key),
         account_id |-> account_id,
         endpoint_url |->
             PyOr(PyOr(args.endpoint_url, env.endpoint_url),
                  IF ~Falsy(account_id)
                  THEN <<"https://">> \o account_id \o <<".r2.cloudflarestorage.com">>
                  ELSE None)]

\* the outcome of the constructor: the error raised, whether a client was
\* created and whether the caller holds an instance
Constructed(err, client) ==
    [state |-> IF err = "none" THEN "constructed" ELSE "raised",
     error |-> err, client |-> client, instance |-> err = "none", requests |-> 0]

Construct(args, env, boto3_ok, retries_ok) ==
    LET c == Combined(args, env)
    IN  IF ~boto3_ok THEN Constructed("StorageError", FALSE)
        ELSE IF Falsy(c.endpoint_url) THEN Constructed("StorageError", FALSE)
        ELSE IF Falsy(c.access_key_id) \/ Falsy(c.secret_access_key)
        THEN Constructed("StorageError", FALSE)
        ELSE IF ~retries_ok THEN Constructed("ValueError", FALSE)
        ELSE Constructed("none", TRUE)

InitConstruct ==
    /\ base_path = <<>>
    /\ public_base_url = None
    /\ signer_ok = TRUE
    /\ store = EmptyDict
    /\ clock = StartClock
    /\ frames = [p \in Callers |-> IdleFrame]
    /\ ncalls = 0
    /\ rkey = <<>>
    /\ rres = [state |-> "unused"]
    /\ cli = [state |-> "unused"]
    /\ \E args \in [Settings -> SettingValues], env \in [Settings -> SettingValues],
          boto3_ok \in BOOLEAN, retries_ok \in BOOLEAN :
          ctor = [state |-> "pending", args |-> args, env |-> env,
                  boto3_ok |-> boto3_ok, retries_ok |-> retries_ok]

CallConstruct ==
    /\ ctor.state = "pending"
    /\ ctor' = Construct(ctor.args, ctor.env, ctor.boto3_ok, ctor.retries_ok)
                  @@ [args |-> ctor.args, env |-> ctor.env,
                      boto3_ok |-> ctor.boto3_ok, retries_ok |-> ctor.retries_ok]
    /\ UNCHANGED <<Config, store, clock, frames, ncalls, rkey, rres, cli>>

NextConstruct == CallConstruct

SpecConstruct == InitConstruct /\ [][NextConstruct]_vars

(***************************************************************************)
(* The r2_upload management command (Command.handle): one invocation with   *)
(* its options and the process environment.  The bundle it uploads runs     *)
(* through the steps of upload_media_bundle.                                *)
(***************************************************************************)
NoSettings == [n \in Settings |-> None]
EnvBuckets == {None, <<>>, <<"envb">>}
OptBuckets == {None, <<"optb">>}

\* os.getenv(name, default): the default only when the variable is not set
GetEnv(value, default) == IF value # None THEN value ELSE default

InitCli ==
    /\ base_path \in {<<>>, <<"p">>}
    /\ public_base_url = <<"https://cdn", Slash>>
    /\ signer_ok = TRUE
    /\ store = EmptyDict
    /\ clock = StartClock
    /\ frames = [p \in Callers |-> IdleFrame]
    /\ ncalls = 0
    /\ rkey = <<>>
    /\ rres = [state |-> "unused"]
    /\ ctor = [state |-> "unused"]
    /\ \E env_bucket \in EnvBuckets, opt_bucket \in OptBuckets,
          env \in [Settings -> SettingValues], audio_is_file \in BOOLEAN,
          song_id \in SongIds, video \in OptPayloads, art \in OptPayloads :
          cli = [state |-> "pending", env_bucket |-> env_bucket,
                 opt_bucket |-> opt_bucket, env |-> env,
                 audio_is_file |-> audio_is_file, song_id |-> song_id,
                 video |-> video, art |-> art,
                 bucket |-> None, error |-> "none", stderr |-> "none",
                 stdout |-> "none", provider |-> FALSE]

\* handle up to the call of upload_media_bundle (lines 41-66)
CliHandle ==
    LET bucket == GetEnv(cli.env_bucket, cli.opt_bucket)
        made == Construct(NoSettings, cli.env, TRUE, TRUE)
        f0 == NewFrame("upload_media_bundle",
                       [song_id |-> cli.song_id, audio |-> <<"B1">>,
                        video |-> cli.video, art |-> cli.art,
                        metadata |-> EmptyDict, user_id |-> None,
                        prefix |-> None, url_expires_in |-> 3600],
                       "audio")
    IN
    /\ cli.state = "pending"
    /\ IF Falsy(bucket)
       THEN /\ cli' = [cli EXCEPT !.state = "returned", !.stderr = "bucket required"]
            /\ UNCHANGED frames
       ELSE IF made.state = "raised"
       THEN /\ cli' = [cli EXCEPT !.state = "raised", !.error = made.error,
                                  !.bucket = bucket]
            /\ UNCHANGED frames
       ELSE IF ~cli.audio_is_file
       THEN /\ cli' = [cli EXCEPT !.state = "returned", !.bucket = bucket,
                                  !.provider = TRUE, !.stderr = "audio not found"]
            /\ UNCHANGED frames
       ELSE /\ cli' = [cli EXCEPT !.state = "uploading", !.bucket = bucket,
                                  !.provider = TRUE]
            /\ frames' = [frames EXCEPT ![Main] =
                  IF cli.song_id = <<>> THEN Raised(f0, "begin", "InvalidInput", <<>>)
                  ELSE f0]
    /\ ncalls' = ncalls + 1
    /\ UNCHANGED <<Config, store, clock, rkey, rres, ctor>>

\* the end of handle: the URLs are printed, or the error of the upload
\* leaves handle
CliFinish ==
    /\ cli.state = "uploading"
    /\ frames[Main].pc \in {"done", "raised"}
    /\ cli' = IF frames[Main].pc = "done"
              THEN [cli EXCEPT !.state = "returned", !.stdout = "Upload complete"]
              ELSE [cli EXCEPT !.state = "raised", !.error = frames[Main].error]
    /\ UNCHANGED <<Config, store, clock, frames, ncalls, rkey, rres, ctor>>

NextCli ==
    \/ CliHandle
    \/ BundleAudio(Main)
    \/ BundleVideo(Main)
    \/ BundleArt(Main)
    \/ BundleWriteManifest(Main)
    \/ BundleLogAudio(Main)
    \/ BundleLogVideo(Main)
    \/ BundleLogArt(Main)
    \/ CliFinish

SpecCli == InitCli /\ [][NextCli]_vars

(***************************************************************************)
(* The transfer configuration built by R2Storage.__init__ (lines 210-221)   *)
(* and the transfer upload_file makes with it.  Sizes are in MiB: a payload *)
(* is a sequence of one-MiB pieces.  The two tuning variables are unset, a  *)
(* number, or text that is no number.                                       *)
(***************************************************************************)
DefaultChunkMb == 8
DefaultMaxConcurrency == 10

ChunkValues == {None, <<"16">>, <<"0">>, <<"x">>}
ConcurrencyValues == {None, <<"2">>, <<"0">>, <<"x">>}
PayloadSizes == {1, 8, 9, 50}

\* int(text): the value, for the texts that are numbers
IntFails(text) == text \notin {<<"16">>, <<"2">>, <<"0">>, <<"8">>, <<"10">>}
IntOf(text) ==
    CASE text = <<"16">> -> 16
      [] text = <<"2">> -> 2
      [] text = <<"0">> -> 0
      [] text = <<"8">> -> DefaultChunkMb
      [] text = <<"10">> -> DefaultMaxConcurrency

NoTransferConfig == [enabled |-> FALSE]

\* lines 211-221: any exception leaves the provider without a transfer
\* configuration; TransferConfig rejects a value that is not positive
TransferConfigOf(chunk_env, concurrency_env) ==
    LET chunk_text == GetEnv(chunk_env, <<"8">>)
        conc_text == GetEnv(concurrency_env, <<"10">>)
    IN  IF IntFails(chunk_text) \/ IntFails(conc_text) THEN NoTransferConfig
        ELSE IF IntOf(chunk_text) <= 0 \/ IntOf(conc_text) <= 0 THEN NoTransferConfig
        ELSE [enabled |-> TRUE,
              multipart_threshold |-> IntOf(chunk_text),
              multipart_chunksize |-> IntOf(chunk_text),
              max_concurrency |-> IntOf(conc_text)]

Pieces(n) == [i \in 1..n |-> "MiB"]

CeilDiv(a, b) == (a + b - 1) \div b
Min(a, b) == IF a <= b THEN a ELSE b

\* the parts of a multipart upload, in order
PartsOf(data, chunk) ==
    [i \in 1..CeilDiv(Len(data), chunk) |->
        SubSeq(data, (i - 1) * chunk + 1, Min(i * chunk, Len(data)))]

RECURSIVE Concat(_)
Concat(parts) == IF parts = <<>> THEN <<>> ELSE Head(parts) \o Concat(Tail(parts))

\* lines 277-294: upload_fileobj under the transfer configuration (multipart
\* from the threshold on), put_object without one
Transfer(data, cfg) ==
    IF ~cfg.enabled
    THEN [mode |-> "single", call |-> "put_object", requests |-> 1, parts |-> 1,
          in_flight |-> 1, sent |-> data]
    ELSE IF Len(data) >= cfg.multipart_threshold
    THEN [mode |-> "multipart", call |-> "upload_fileobj",
          requests |-> CeilDiv(Len(data), cfg.multipart_chunksize) + 2,
          parts |-> CeilDiv(Len(data), cfg.multipart_chunksize),
          in_flight |-> Min(CeilDiv(Len(data), cfg.multipart_chunksize),
                            cfg.max_concurrency),
          sent |-> Concat(PartsOf(data, cfg.multipart_chunksize))]
    ELSE [mode |-> "single", call |-> "upload_fileobj", requests |-> 1, parts |-> 1,
          in_flight |-> 1, sent |-> data]

InitTransfer ==
    /\ base_path \in {<<>>, <<"p">>}
    /\ public_base_url = None
    /\ signer_ok = TRUE
    /\ store = EmptyDict
    /\ clock = StartClock
    /\ frames = [p \in Callers |-> IdleFrame]
    /\ ncalls = 0
    /\ rkey = <<>>
    /\ rres = [state |-> "unused"]
    /\ cli = [state |-> "unused"]
    /\ \E chunk_env \in ChunkValues, concurrency_env \in ConcurrencyValues :
          ctor = [state |-> "constructed", chunk_env |-> chunk_env,
                  concurrency_env |-> concurrency_env,
                  transfer_config |-> TransferConfigOf(chunk_env, concurrency_env)]

\* upload_file of a payload of some size; without a transfer configuration
\* no HEAD follows the transfer
CallUploadSized(p) ==
    /\ CanBegin(p)
    /\ \E size \in PayloadSizes, net \in PutOutcomes :
          LET cfg == ctor.transfer_config
              how == Transfer(Pieces(size), cfg)
              net1 == IF cfg.enabled THEN net ELSE [net EXCEPT !.head = TRUE]
              out == UploadFile(store, <<"a">>, Raw(how.sent), None, EmptyDict, TRUE, net1)
              f0 == [NewFrame("upload_file",
                              [key |-> <<"a">>, file |-> Pieces(size),
                               metadata |-> EmptyDict, overwrite |-> TRUE], "call")
                        EXCEPT !.net = net1, !.transfer = how]
          IN  /\ store' = out.store
              /\ frames' = [frames EXCEPT ![p] =
                    IF out.raised = "none"
                    THEN [f0 EXCEPT !.pc = "done", !.result = out.result,
                                    !.writes = out.wrote]
                    ELSE Raised(f0, "upload", out.raised, out.wrote)]
    /\ ncalls' = ncalls + 1
    /\ UNCHANGED <<Config, clock, Harness>>

NextTransfer == CallUploadSized(Main)

SpecTransfer == InitTransfer /\ [][NextTransfer]_vars

(***************************************************************************)
(* list_objects (lines 377-385): a generator over the pages of              *)
(* list_objects_v2.  The store serves the keys that start with the Prefix   *)
(* parameter, a page at a time, each page continuing after the keys already *)
(* served; the size of a page is the store's choice.                        *)
(***************************************************************************)
ListKeys ==
    {<<"a">>, <<"a", "b">>, <<"p", Slash, "a">>, <<"p", Slash, "a", "b">>, <<"p", "a">>}
ListPrefixes == {<<>>, <<"a">>, <<Slash, "a">>, <<"p">>}
PageSizes == {1, 2}

StartsWith(key, prefix) == Len(prefix) <= Len(key) /\ prefix = SubSeq(key, 1, Len(prefix))

\* line 378
ListPrefixUnresolved(prefix) == prefix

ListPrefix(prefix) == IF prefix # <<>> THEN ResolveKey(prefix) ELSE base_path

\* lines 380-382: without a Prefix parameter the store serves every key
Listed(st, r2_prefix) == {k \in DOMAIN st : r2_prefix # <<>> => StartsWith(k, r2_prefix)}

SeqOfSet(S) == CHOOSE q \in [1..Cardinality(S) -> S] : {q[i] : i \in 1..Cardinality(S)} = S

InitList ==
    /\ base_path \in {<<>>, <<"p">>}
    /\ public_base_url = None
    /\ signer_ok = TRUE
    /\ \E keys \in SUBSET ListKeys :
          store = [k \in keys |-> StoredObject(Raw(<<"B1">>), None, EmptyDict)]
    /\ clock = StartClock
    /\ frames = [p \in Callers |-> IdleFrame]
    /\ ncalls = 0
    /\ rkey = <<>>
    /\ rres = [state |-> "unused"]
    /\ ctor = [state |-> "unused"]
    /\ cli = [state |-> "unused"]

\* the call returns the generator; nothing is requested yet
BeginList(p) ==
    /\ CanBegin(p)
    /\ \E prefix \in ListPrefixes :
          frames' = [frames EXCEPT ![p] =
              NewFrame("list_objects", [prefix |-> prefix], "listing")]
    /\ ncalls' = ncalls + 1
    /\ UNCHANGED <<Config, store, clock, Harness>>

\* lines 383-385: the next page is fetched and its keys are yielded; the
\* paginator stops at the page that is not truncated
ListPage(p) ==
    /\ frames[p].op = "list_objects"
    /\ frames[p].pc = "listing"
    /\ LET f == frames[p]
           left == Listed(store, ListPrefix(f.args.prefix)) \ {f.result[i] : i \in 1..Len(f.result)}
       IN  \E size \in PageSizes, page \in SUBSET left :
             /\ Cardinality(page) = Min(size, Cardinality(left))
             /\ frames' = [frames EXCEPT ![p] =
                   [f EXCEPT !.result = @ \o SeqOfSet(page),
                             !.pc = IF left \ page = {} THEN "done" ELSE "listing"]]
    /\ UNCHANGED <<Config, store, clock, ncalls, Harness>>

NextList == BeginList(Main) \/ ListPage(Main)

\* the caller iterates the generator to its end
SpecList == InitList /\ [][NextList]_vars /\ WF_vars(ListPage(Main))

(***************************************************************************)
(* What the claims speak about.                                            *)
(***************************************************************************)
F == frames[Main]

Range(q) == {q[i] : i \in 1..Len(q)}
IsPrefix(a, b) == Len(a) <= Len(b) /\ a = SubSeq(b, 1, Len(a))

\* the manifest a reader finds under the call's prefix in bucket st
HasManifest(st, args) ==
    /\ ResolveKey(ManifestKey(args.prefix, args.song_id)) \in DOMAIN st
    /\ st[ResolveKey(ManifestKey(args.prefix, args.song_id))].body.fmt = "json"

ManifestIn(st, args) ==
    JsonLoads(st[ResolveKey(ManifestKey(args.prefix, args.song_id))].body.data)

\* what a written key holds, by its name
KindOf(k) ==
    IF Last(k) \in Assets THEN Last(k)
    ELSE IF Last(k) = "manifest.json" THEN "manifest" ELSE "log"

KindsOf(w) == [i \in 1..Len(w) |-> KindOf(w[i])]

Supplied(args) == {a \in Assets : args[a] # None}

\* the order section 4.3 gives the writes of one bundle upload
ExpectedKinds(args) ==
    <<"audio">>
    \o (IF args.video # None THEN <<"video">> ELSE <<>>)
    \o (IF args.art # None THEN <<"art">> ELSE <<>>)
    \o <<"manifest">>
    \o [i \in 1..Cardinality(Supplied(args)) |-> "log"]

BundleDone == F.op = "upload_media_bundle" /\ F.pc = "done"
ReplaceDone == F.op = "replace_media_asset" /\ F.pc = "done"

(***************************************************************************)
(* C1.  replaceMediaAsset on a prefix whose manifest exists leaves keys[b] *)
(* and links[b] of every other asset b as they were, whatever the outcome  *)
(* of its manifest read.                                                   *)
(* The code rebuilds the manifest from empty slots when the read fails, so *)
(* the statement is violated.                                              *)
(***************************************************************************)
C1_ReplaceKeepsOtherSlots ==
    (ReplaceDone /\ HasManifest(F.pre, F.args)) =>
        /\ HasManifest(store, F.args)
        /\ \A b \in Assets \ {F.args.asset} :
              /\ ManifestIn(store, F.args)["keys"][b] = ManifestIn(F.pre, F.args)["keys"][b]
              /\ ManifestIn(store, F.args)["links"][b] = ManifestIn(F.pre, F.args)["links"][b]

(***************************************************************************)
(* C2.  After a successful uploadMediaBundle the stored manifest has a     *)
(* non-null keys.audio, keys.video (keys.art) is null exactly when the     *)
(* video (art) argument was omitted, and the result carries the same keys. *)
(***************************************************************************)
C2_BundleManifestKeys ==
    BundleDone =>
        /\ HasManifest(store, F.args)
        /\ LET keys == ManifestIn(store, F.args)["keys"]
           IN  /\ keys["audio"] # None
               /\ (keys["video"] = None) <=> (F.args.video = None)
               /\ (keys["art"] = None) <=> (F.args.art = None)
               /\ F.result.audio_key = keys["audio"]
               /\ F.result.video_key = keys["video"]
               /\ F.result.art_key = keys["art"]

C2_Witness ==
    /\ BundleDone
    /\ F.args.video = None /\ F.args.art # None
    /\ F.result.video_key = None /\ F.result.art_key # None
    /\ ManifestIn(store, F.args)["keys"]["video"] = None

(***************************************************************************)
(* C3.  Every manifest object in the bucket has keys and links mappings    *)
(* over exactly the slots audio, video and art.                            *)
(***************************************************************************)
C3_ManifestSlots ==
    \A k \in DOMAIN store :
        Last(k) = "manifest.json" =>
            /\ store[k].body.fmt = "json"
            /\ {"keys", "links"} \subseteq DOMAIN store[k].body.data
            /\ DOMAIN store[k].body.data["keys"] = Assets
            /\ DOMAIN store[k].body.data["links"] = Assets

\* a manifest that replace built from scratch, after one that it read
C3_Witness ==
    /\ ReplaceDone
    /\ ~F.read_ok
    /\ ncalls = 2
    /\ HasManifest(store, F.args)
    /\ ManifestIn(store, F.args)["keys"][F.args.asset] # None

(***************************************************************************)
(* C4.  A failed upload-log write does not fail the operation: the call    *)
(* still returns its result.                                               *)
(* The code lets the error of the log upload propagate, so the statement   *)
(* is violated.                                                            *)
(***************************************************************************)
LogSteps == {"log_audio", "log_video", "log_art", "log"}

C4_LogFailureSwallowed ==
    (F.failed_at \in LogSteps) =>
        /\ F.pc # "raised"
        /\ F.error = "none"

(***************************************************************************)
(* C5.  Within one uploadMediaBundle call the writes happen in the order   *)
(* audio, video, art, manifest, logs; the manifest is written only after   *)
(* every supplied asset was uploaded, and no log before the manifest.      *)
(***************************************************************************)
C5_WriteOrder ==
    F.op = "upload_media_bundle" =>
        /\ IsPrefix(KindsOf(F.writes), ExpectedKinds(F.args))
        /\ "manifest" \in Range(KindsOf(F.writes)) => Supplied(F.args) = DOMAIN F.ups
        /\ "log" \in Range(KindsOf(F.writes)) => F.manifest # EmptyDict

C5_Witness ==
    /\ BundleDone
    /\ KindsOf(F.writes) = <<"audio", "video", "art", "manifest", "log", "log", "log">>

(***************************************************************************)
(* C6.  uploadMediaBundle has no rollback: when the upload of video, art   *)
(* or the manifest fails, the error reaches the caller, the assets         *)
(* uploaded earlier in the call are still stored as uploaded, and no later *)
(* step of the call is performed.                                          *)
(***************************************************************************)
StepsBefore(step) ==
    CASE step = "video" -> {"audio"}
      [] step = "art" -> {"audio", "video"}
      [] step = "manifest" -> {"audio", "video", "art"}

C6_NoRollback ==
    (F.op = "upload_media_bundle" /\ F.failed_at \in {"video", "art", "manifest"}) =>
        /\ F.pc = "raised" /\ F.error # "none"
        /\ \A a \in StepsBefore(F.failed_at) \cap Supplied(F.args) :
              /\ HasObjectInfo(store, AssetKey(F.args.prefix, F.args.song_id, a), NetOk)
              /\ store[ResolveKey(AssetKey(F.args.prefix, F.args.song_id, a))].body
                    = Raw(F.args[a])
        /\ Range(KindsOf(F.writes)) \subseteq StepsBefore(F.failed_at) \cup {F.failed_at}

C6_Witness ==
    /\ F.op = "upload_media_bundle" /\ F.pc = "raised" /\ F.failed_at = "art"
    /\ F.args.video # None
    /\ KindsOf(F.writes) = <<"audio", "video">>
    /\ {"audio", "video"} \subseteq
          {Last(k) : k \in DOMAIN store}

(***************************************************************************)
(* C7.  uploadFile(K, B, overwrite=false) on a key whose resolved key      *)
(* holds an object fails with AlreadyExists and leaves the bucket as it    *)
(* was, for every base path.  Stated for calls whose existence check       *)
(* reached the store (the HEAD itself did not fail).                       *)
(* With a non-empty base path the code checks the key resolved twice, so   *)
(* the statement is violated.                                              *)
(***************************************************************************)
UploadFileEnded == F.op = "upload_file" /\ F.pc \in {"done", "raised"}

C7_NoOverwriteKeepsObject ==
    (/\ UploadFileEnded
     /\ ~F.args.overwrite
     /\ ~ResolveRaises(F.args.key)
     /\ ResolveKey(F.args.key) \in DOMAIN F.pre
     /\ F.net.exists) =>
        /\ F.pc = "raised" /\ F.error = "AlreadyExists"
        /\ store = F.pre

(***************************************************************************)
(* C8.  uploadFile(K, B) with overwrite=true leaves one object at the      *)
(* resolved key of K, holding B, also when an earlier upload had put       *)
(* other content there; no other key is created or changed.                *)
(***************************************************************************)
C8_OverwriteIdempotent ==
    (F.op = "upload_file" /\ F.pc = "done" /\ F.args.overwrite) =>
        /\ DOMAIN store = DOMAIN F.pre \cup {ResolveKey(F.args.key)}
        /\ store[ResolveKey(F.args.key)].body = Raw(F.args.file)
        /\ F.result.key = ResolveKey(F.args.key)
        /\ \A k \in DOMAIN F.pre \ {ResolveKey(F.args.key)} : store[k] = F.pre[k]

\* the second of two uploads to one key, with other content
C8_Witness ==
    /\ F.op = "upload_file" /\ F.pc = "done" /\ F.args.overwrite
    /\ ncalls = 2
    /\ ResolveKey(F.args.key) \in DOMAIN F.pre
    /\ F.pre[ResolveKey(F.args.key)].body = Raw(<<"B1">>)
    /\ store[ResolveKey(F.args.key)].body = Raw(<<"B2">>)
    /\ Cardinality(DOMAIN store) = 1

(***************************************************************************)
(* C9.  resolve(logicalKey) fails on the empty key and otherwise returns   *)
(* the key with the slashes at both of its ends removed, after the base    *)
(* path and a slash when a base path is configured.                        *)
(* The code removes leading slashes only: the statement as given is        *)
(* C9_ResolveTrimsBothEnds, the statement that holds C9_ResolveStripsLeading. *)
(***************************************************************************)
BasePrefix == IF base_path # <<>> THEN base_path \o <<Slash>> ELSE <<>>

C9_ResolveTrimsBothEnds ==
    rres.state # "pending" =>
        IF rkey = <<>> THEN rres.state = "raised"
        ELSE /\ rres.state = "returned"
             /\ rres.key = BasePrefix \o Strip(rkey)

\* C9 as amended: the leading slashes of the key are removed and nothing else
C9_ResolveStripsLeading ==
    rres.state # "pending" =>
        IF rkey = <<>> THEN rres.state = "raised"
        ELSE /\ rres.state = "returned"
             /\ \E n \in 0..Len(rkey) :
                   /\ \A i \in 1..n : rkey[i] = Slash
                   /\ n < Len(rkey) => rkey[n + 1] # Slash
                   /\ rres.key = BasePrefix \o SubSeq(rkey, n + 1, Len(rkey))

C9_Witness ==
    /\ rres.state = "returned"
    /\ base_path # <<>>
    /\ rkey = <<Slash, "a", Slash>>
    /\ rres.key = base_path \o <<Slash, "a", Slash>>

(***************************************************************************)
(* C10.  deleteObject on a key with no object, the store's DELETE          *)
(* succeeding: with missingOk=false it fails with NotFound, with           *)
(* missingOk=true it returns; the bucket is unchanged in both cases.       *)
(* The code never looks whether the object exists, so with missingOk=false *)
(* it returns as well and the statement is violated.                       *)
(***************************************************************************)
C10_DeleteMissing ==
    (/\ F.op = "delete_object" /\ F.pc \in {"done", "raised"}
     /\ ~ResolveRaises(F.args.key)
     /\ ResolveKey(F.args.key) \notin DOMAIN F.pre
     /\ F.del_ok) =>
        /\ F.args.missing_ok => F.pc = "done"
        /\ ~F.args.missing_ok => (F.pc = "raised" /\ F.error = "NotFound")
        /\ store = F.pre

(***************************************************************************)
(* C11.  replaceMediaAsset does not fail at its manifest pre-read: when the *)
(* read or the parse fails, the call goes on with a manifest whose keys and *)
(* links are null in all three slots but the replaced one, and a call that  *)
(* then completes has persisted that manifest and returns its result.       *)
(***************************************************************************)
OnlySlot(a, v) == [x \in Assets |-> IF x = a THEN v ELSE None]

C11_PreReadFailureFresh ==
    F.op = "replace_media_asset" =>
        /\ F.failed_at # "read"
        /\ (F.pc \in {"write", "log", "done"} /\ ~F.read_ok) =>
              /\ F.manifest["keys"] = OnlySlot(F.args.asset, F.ups[F.args.asset].key)
              /\ F.manifest["links"] =
                    OnlySlot(F.args.asset,
                             UrlOrPublic(F.ups[F.args.asset].key, F.args.url_expires_in))
        /\ (F.pc = "done" /\ ~F.read_ok) =>
              /\ HasManifest(store, F.args)
              /\ ManifestIn(store, F.args)["keys"]
                    = OnlySlot(F.args.asset, F.ups[F.args.asset].key)
              /\ F.result.manifest_key = ManifestKey(F.args.prefix, F.args.song_id)
              /\ F.result[F.args.asset \o "_key"] = F.ups[F.args.asset].key

\* the read failed although a manifest with an audio key was stored
C11_Witness ==
    /\ ReplaceDone
    /\ ~F.read_ok
    /\ F.args.asset = "video"
    /\ HasManifest(F.pre, F.args)
    /\ ManifestIn(F.pre, F.args)["keys"]["audio"] # None
    /\ F.result.audio_key = None
    /\ F.result.video_key # None

(***************************************************************************)
(* C12.  Concurrent replaceMediaAsset calls on one prefix are not excluded  *)
(* from one another and the last manifest writer wins: every manifest write *)
(* puts the writer's own manifest, as computed at its read, in place of     *)
(* whatever is stored.  The witness is the lost update: both calls have     *)
(* returned, both assets are stored, and the manifest lacks the slot of the *)
(* call that wrote first.                                                   *)
(***************************************************************************)
Other(p) == CHOOSE q \in Callers : q # p

ManifestWriteBy(p) ==
    /\ frames[p].op = "replace_media_asset"
    /\ frames[p].pc = "write"
    /\ frames'[p].pc = "log"

C12_LastManifestWriterWins ==
    [][\A p \in Callers :
          ManifestWriteBy(p) =>
              /\ HasManifest(store', frames[p].args)
              /\ ManifestIn(store', frames[p].args) = frames[p].manifest
              /\ frames'[Other(p)] = frames[Other(p)]]_vars

C12_Witness ==
    \E p \in Callers :
        LET f == frames[p]
            g == frames[Other(p)]
        IN  /\ f.op = "replace_media_asset" /\ f.pc = "done"
            /\ g.op = "replace_media_asset" /\ g.pc = "done"
            /\ f.args.song_id = g.args.song_id /\ f.args.song_id # <<>>
            /\ f.args.asset # g.args.asset
            /\ f.ups[f.args.asset].key \in DOMAIN store
            /\ g.ups[g.args.asset].key \in DOMAIN store
            /\ f.result[f.args.asset \o "_key"] # None
            /\ ManifestIn(store, f.args) = g.manifest
            /\ ManifestIn(store, f.args)["keys"][f.args.asset] = None

(***************************************************************************)
(* C13.  uploadMediaBundle calls running at the same time for different     *)
(* song ids do not interfere: the keys the two calls write are disjoint,    *)
(* and when a call has returned its assets and its manifest are stored as   *)
(* the call run alone stores them.                                          *)
(***************************************************************************)
\* what a call with these arguments, run alone, gets from its uploads
AloneUps(args) ==
    [a \in Supplied(args) |->
        [key |-> ResolveKey(AssetKey(args.prefix, args.song_id, a)),
         etag |-> ETagOf(Raw(args[a])),
         version_id |-> None]]

AloneUrls(args) ==
    [a \in Supplied(args) |-> UrlOrPublic(AloneUps(args)[a].key, args.url_expires_in)]

AloneAsset(args, a) ==
    StoredObject(Raw(args[a]), DefaultContentType(a),
                 AssetTags(args.metadata, args.song_id, a))

AloneManifest(args, ts) ==
    StoredObject(Json(JsonDumps(BundleManifest(args, ts, AloneUps(args), AloneUrls(args)))),
                 <<"application/json">>, ManifestTags(args.song_id))

BundleOf(p) == frames[p].op = "upload_media_bundle"

C13_SongsDoNotInterfere ==
    /\ (BundleOf("c1") /\ BundleOf("c2")) =>
          Range(frames["c1"].writes) \cap Range(frames["c2"].writes) = {}
    /\ \A p \in Callers :
          (BundleOf(p) /\ frames[p].pc = "done") =>
              LET args == frames[p].args
                  mk == ResolveKey(ManifestKey(args.prefix, args.song_id))
              IN  /\ \A a \in Supplied(args) :
                        /\ AloneUps(args)[a].key \in DOMAIN store
                        /\ store[AloneUps(args)[a].key] = AloneAsset(args, a)
                  /\ mk \in DOMAIN store
                  /\ store[mk] = AloneManifest(args, frames[p].ts)

\* the second call began while the first was between its audio upload and
\* its manifest write, and both have returned
C13_Witness ==
    \E p \in Callers :
        LET f == frames[p]
            g == frames[Other(p)]
        IN  /\ BundleOf(p) /\ f.pc = "done"
            /\ BundleOf(Other(p)) /\ g.pc = "done"
            /\ f.args.song_id # g.args.song_id
            /\ AloneUps(f.args)["audio"].key \in DOMAIN g.pre
            /\ ~HasManifest(g.pre, f.args)
            /\ f.args.video # None /\ g.args.art # None
            /\ HasManifest(store, f.args) /\ HasManifest(store, g.args)

(***************************************************************************)
(* C14.  A successful uploadMediaBundle that uploaded n assets has created  *)
(* n upload-log objects, one per asset and each under a key of its own,     *)
(* whatever the clock read at the log writes.                               *)
(* The log key is the directory of the asset and the millisecond read at    *)
(* the write; the assets of a bundle share the directory, so two writes     *)
(* within one millisecond go to one key and the statement is violated.      *)
(***************************************************************************)
LogsOf(f) == {f.writes[i] : i \in {j \in 1..Len(f.writes) : KindOf(f.writes[j]) = "log"}}

C14_OneLogPerAsset ==
    BundleDone =>
        /\ LogsOf(F) \subseteq DOMAIN store
        /\ Cardinality(LogsOf(F)) = Cardinality(DOMAIN F.ups)

(***************************************************************************)
(* C15.  With no other writer on the prefix, the result replaceMediaAsset   *)
(* returns equals the stored manifest: for each asset x its key and URL in  *)
(* the result are keys[x] and links[x] of the manifest object in the bucket *)
(* when the call returns.                                                   *)
(***************************************************************************)
C15_ResultIsStoredManifest ==
    ReplaceDone =>
        /\ HasManifest(store, F.args)
        /\ \A x \in Assets :
              /\ F.result[x \o "_key"] = DictGet(ManifestIn(store, F.args)["keys"], x)
              /\ F.result[x \o "_url"] = DictGet(ManifestIn(store, F.args)["links"], x)

\* the result carries a slot the call did not upload, read from the manifest
C15_Witness ==
    /\ ReplaceDone
    /\ F.read_ok
    /\ F.args.asset = "art"
    /\ F.result.audio_key # None /\ F.result.audio_url # None
    /\ F.result.art_key = F.ups["art"].key
    /\ ManifestIn(store, F.args)["keys"]["audio"] = F.result.audio_key

(***************************************************************************)
(* C16.  objectExists(K) and getObjectInfo(K) never raise for a non-empty   *)
(* key.  They return false / absent when nothing is stored at the resolved  *)
(* key and when the HEAD request fails, true / the object's info when the   *)
(* HEAD succeeds, and they leave the bucket as it was.                      *)
(***************************************************************************)
HeadSucceeds(f) == f.net.exists /\ ResolveKey(f.args.key) \in DOMAIN f.pre

C16_LookupsNeverRaise ==
    (F.op \in {"object_exists", "get_object_info"} /\ F.args.key # <<>>) =>
        /\ F.pc = "done" /\ F.error = "none"
        /\ store = F.pre
        /\ F.op = "object_exists" => (F.result.value <=> HeadSucceeds(F))
        /\ F.op = "get_object_info" =>
              /\ F.result.found <=> HeadSucceeds(F)
              /\ F.result.found =>
                    /\ F.result.info.key = ResolveKey(F.args.key)
                    /\ F.result.info.checksum = F.pre[ResolveKey(F.args.key)].etag
                    /\ F.result.info.metadata = F.pre[ResolveKey(F.args.key)].metadata

\* the HEAD of a stored object failed and object_exists answered false
C16_Witness ==
    /\ F.op = "object_exists" /\ F.pc = "done"
    /\ ResolveKey(F.args.key) \in DOMAIN F.pre
    /\ ~F.net.exists
    /\ F.result.value = FALSE
    /\ store = F.pre

(***************************************************************************)
(* C17.  buildUrl(K, expiresIn): whenever an expiresIn is given, 0          *)
(* included, the result is the signed URL, or absent when signing fails,    *)
(* and never the public form; with no expiresIn it is the public URL when a *)
(* public base URL is configured and absent otherwise.                      *)
(* The code tests the truth of expires_in, so 0 is taken as not given and   *)
(* the statement is violated.                                               *)
(***************************************************************************)
C17_BuildUrlCases ==
    (F.op = "build_url" /\ F.args.key # <<>>) =>
        /\ F.pc = "done" /\ F.error = "none"
        /\ F.args.expires_in # NoExpiry =>
              F.result.url = IF CanSign(ResolveKey(F.args.key))
                             THEN SignedUrl(ResolveKey(F.args.key), F.args.expires_in)
                             ELSE None
        /\ F.args.expires_in = NoExpiry =>
              F.result.url = IF public_base_url # None
                             THEN PublicUrl(ResolveKey(F.args.key))
                             ELSE None

(***************************************************************************)
(* C18.  updateMetadata(K, M, merge) on a stored object, the requests       *)
(* succeeding: with merge=true the object's metadata becomes its previous   *)
(* metadata overridden by M, with merge=false exactly M, for every base     *)
(* path; the body is unchanged.                                             *)
(* The code looks the current metadata up under the key resolved twice, so  *)
(* with a non-empty base path the statement is violated.                    *)
(***************************************************************************)
C18_UpdateMetadataMerges ==
    (/\ F.op = "update_metadata" /\ F.pc \in {"done", "raised"}
     /\ F.args.key # <<>>
     /\ ResolveKey(F.args.key) \in DOMAIN F.pre
     /\ F.net.exists /\ F.copy_ok) =>
        /\ F.pc = "done"
        /\ store[ResolveKey(F.args.key)].metadata =
              IF F.args.merge
              THEN Merge(F.pre[ResolveKey(F.args.key)].metadata, F.args.metadata)
              ELSE F.args.metadata
        /\ store[ResolveKey(F.args.key)].body = F.pre[ResolveKey(F.args.key)].body

(***************************************************************************)
(* C19.  uploadMediaBundle and replaceMediaAsset called with an empty song  *)
(* id fail with an invalid-input error before anything is written.          *)
(* replace_media_asset does not look at its song_id, so the statement is    *)
(* violated.                                                                *)
(***************************************************************************)
C19_EmptySongIdRejected ==
    (/\ F.op \in {"upload_media_bundle", "replace_media_asset"}
     /\ F.args.song_id = <<>>) =>
        /\ F.writes = <<>>
        /\ store = F.pre
        /\ F.pc \in {"done", "raised"} =>
              (F.pc = "raised" /\ F.error = "InvalidInput")

(***************************************************************************)
(* C20.  Constructing the provider fails with the configuration error,      *)
(* without a client having been created or a request sent, whenever the     *)
(* access key id, the secret access key or the endpoint (explicit, from the *)
(* environment or derived from the account id) is missing once arguments    *)
(* and environment are combined; the caller then holds no instance.         *)
(***************************************************************************)
Missing(name) ==
    /\ ctor.args[name] \in {None, <<>>}
    /\ ctor.env[name] \in {None, <<>>}

C20_ConstructorFailsFast ==
    (/\ ctor.state \in {"raised", "constructed"}
     /\ \/ Missing("access_key_id")
        \/ Missing("secret_access_key")
        \/ Missing("endpoint_url") /\ Missing("account_id")) =>
        /\ ctor.state = "raised"
        /\ ctor.error = "StorageError"
        /\ ~ctor.client
        /\ ~ctor.instance
        /\ ctor.requests = 0

\* everything is passed but the secret, whose environment variable is empty
C20_Witness ==
    /\ ctor.state = "raised"
    /\ ctor.args.access_key_id = <<"v">>
    /\ ctor.args.endpoint_url = <<"v">>
    /\ ctor.args.secret_access_key = None
    /\ ctor.env.secret_access_key = <<>>
    /\ ctor.boto3_ok /\ ctor.retries_ok
    /\ ctor.error = "StorageError"
    /\ ~ctor.client

(***************************************************************************)
(* C21.  The r2_upload command lets no configuration or missing-file error  *)
(* escape as an exception: with no bucket configured, with credentials or   *)
(* endpoint missing, or with an audio path that is not a file, it writes an *)
(* error message and returns, and nothing is uploaded.                      *)
(* The command builds the provider outside any try block, so the            *)
(* constructor's error leaves handle and the statement is violated.         *)
(***************************************************************************)
CliEnded == cli.state \in {"returned", "raised"}
CliNoBucket == Falsy(GetEnv(cli.env_bucket, cli.opt_bucket))
CliNoConfig == Construct(NoSettings, cli.env, TRUE, TRUE).state = "raised"

C21_CliReportsErrors ==
    (CliEnded /\ (CliNoBucket \/ CliNoConfig \/ ~cli.audio_is_file)) =>
        /\ cli.state = "returned"
        /\ cli.error = "none"
        /\ cli.stderr # "none"
        /\ store = EmptyDict

(***************************************************************************)
(* C22.  In the r2_upload command --bucket overrides R2_BUCKET: with both   *)
(* set the provider is built on the --bucket value, and the environment     *)
(* value is used only when --bucket is not given.                           *)
(* The command reads os.getenv("R2_BUCKET", <--bucket>): the option is only *)
(* the default for an unset variable, so the statement is violated.         *)
(***************************************************************************)
C22_BucketOptionOverrides ==
    (cli.provider /\ frames[Main].op = "upload_media_bundle") =>
        /\ cli.bucket = IF cli.opt_bucket # None THEN cli.opt_bucket ELSE cli.env_bucket
        /\ Bucket = cli.bucket

(***************************************************************************)
(* C23.  uploadFile picks the transfer mode from the payload size under     *)
(* every configuration the constructor accepts: a payload larger than the   *)
(* threshold (the chunk size, 8 MiB by default) goes as multipart in parts  *)
(* of the chunk size, more than one, with at most the configured number of  *)
(* parts (10 by default) in flight; a payload not larger goes as one        *)
(* request; the stored object equals the payload.                           *)
(* A tuning variable that is no positive number is accepted and leaves the  *)
(* provider without a transfer configuration, and then every payload goes   *)
(* as one request: the statement is violated.                               *)
(***************************************************************************)
\* the value a tuning variable configures: its number, the default otherwise
Tuned(text, default) ==
    IF text # None /\ ~IntFails(text) /\ IntOf(text) > 0 THEN IntOf(text) ELSE default

C23_TransferModeBySize ==
    (F.op = "upload_file" /\ F.pc = "done" /\ F.transfer.mode # "none") =>
        LET size == Len(F.args.file)
            chunk == Tuned(ctor.chunk_env, DefaultChunkMb)
            limit == Tuned(ctor.concurrency_env, DefaultMaxConcurrency)
        IN  /\ size > chunk =>
                  /\ F.transfer.mode = "multipart"
                  /\ F.transfer.parts = CeilDiv(size, chunk)
                  /\ F.transfer.parts > 1
                  /\ F.transfer.in_flight <= limit
            /\ size <= chunk =>
                  /\ F.transfer.mode = "single"
                  /\ F.transfer.requests = 1
            /\ store[ResolveKey(F.args.key)].body = Raw(F.args.file)

(***************************************************************************)
(* C24.  listObjects(prefix) over a store that is not modified meanwhile:   *)
(* the iteration ends, and when it has ended it has yielded each stored key *)
(* that starts with the resolved prefix exactly once and no other key,      *)
(* whatever the sizes of the pages; with an empty prefix the resolved       *)
(* prefix is the base path.                                                 *)
(***************************************************************************)
ListDone == F.op = "list_objects" /\ F.pc = "done"

ListedExactlyOnce ==
    ListDone =>
        LET r2_prefix == IF F.args.prefix = <<>> THEN base_path
                         ELSE ResolveKey(F.args.prefix)
        IN  /\ Range(F.result) = {k \in DOMAIN store : IsPrefix(r2_prefix, k)}
            /\ \A i, j \in 1..Len(F.result) : F.result[i] = F.result[j] => i = j

C24_ListYieldsEachKeyOnce ==
    /\ []ListedExactlyOnce
    /\ (F.op = "list_objects" /\ F.pc = "listing") ~> ListDone

\* C24: a listing of several pages under a non-empty base path has ended
C24_Witness ==
    /\ ListDone
    /\ base_path # <<>>
    /\ F.args.prefix = <<>>
    /\ Len(F.result) > 2
    /\ DOMAIN store # Range(F.result)

(***************************************************************************)
(* C25.  After successful bundle uploads and asset replacements on one      *)
(* prefix, for every asset whose slot in the manifest's keys is not null,   *)
(* the manifest's etags and versions hold the entity tag and the version id *)
(* of the most recent upload of that asset, which are those of the object   *)
(* now stored under the key.                                                *)
(* replace_media_asset rewrites keys, links, uploaded_at, metadata and      *)
(* uploader_id only: the statement is violated.                             *)
(***************************************************************************)
C25_TagsFollowUploads ==
    ((BundleDone \/ ReplaceDone) /\ HasManifest(store, F.args)) =>
        LET m == ManifestIn(store, F.args)
        IN  \A a \in Assets :
              (m["keys"][a] # None /\ m["keys"][a] \in DOMAIN store) =>
                  /\ "etags" \in DOMAIN m /\ "versions" \in DOMAIN m
                  /\ a \in DOMAIN m["etags"] /\ a \in DOMAIN m["versions"]
                  /\ m["etags"][a] = store[m["keys"][a]].etag

(***************************************************************************)
(* C26.  For every base path, after a successful bundle upload or asset     *)
(* replacement each link of the manifest and of the result that is not null *)
(* is a URL, signed or public, of exactly the key recorded in the same slot *)
(* of keys: the key an upload returned is not put under the base path a     *)
(* second time.                                                             *)
(* build_url resolves the key it is given, and the orchestrator gives it    *)
(* the resolved key: with a non-empty base path the statement is violated.  *)
(***************************************************************************)
UrlsFor(r2_key, expires_in) == {SignedUrl(r2_key, expires_in), PublicUrl(r2_key)}

C26_LinksNameStoredKeys ==
    ((BundleDone \/ ReplaceDone) /\ HasManifest(store, F.args)) =>
        LET m == ManifestIn(store, F.args)
        IN  /\ \A a \in Assets :
                  (m["keys"][a] # None /\ m["links"][a] # None) =>
                      m["links"][a] \in UrlsFor(m["keys"][a], F.args.url_expires_in)
            /\ BundleDone =>
                  /\ F.result.audio_url # None =>
                        F.result.audio_url \in UrlsFor(F.result.audio_key, F.args.url_expires_in)
                  /\ F.result.video_url # None =>
                        F.result.video_url \in UrlsFor(F.result.video_key, F.args.url_expires_in)
                  /\ F.result.art_url # None =>
                        F.result.art_url \in UrlsFor(F.result.art_key, F.args.url_expires_in)

(***************************************************************************)
(* C27.  uploadFile is all-or-nothing for the caller: when uploadFile(K, B) *)
(* raises, the store holds at the resolved key of K what it held before the *)
(* call, also when it is the HEAD request after the transfer that failed.   *)
(* The transfer has stored B when the HEAD request fails: the statement is  *)
(* violated.                                                                *)
(***************************************************************************)
At(st, k) == IF k \in DOMAIN st THEN st[k] ELSE [absent |-> TRUE]

C27_UploadAllOrNothing ==
    (F.op = "upload_file" /\ F.pc = "raised" /\ ~ResolveRaises(F.args.key)) =>
        At(store, ResolveKey(F.args.key)) = At(F.pre, ResolveKey(F.args.key))

(***************************************************************************)
(* C30.  When deleteObject(K) with missingOk=true returns normally, there   *)
(* is no object at the resolved key of K, also when the delete request      *)
(* failed in transport or for want of permission.                           *)
(* The failure of the request is swallowed under missingOk=true and the     *)
(* object stays: the statement is violated.                                 *)
(***************************************************************************)
C30_DeleteReturnsMeansGone ==
    (F.op = "delete_object" /\ F.pc = "done" /\ F.args.missing_ok) =>
        ResolveKey(F.args.key) \notin DOMAIN store

(***************************************************************************)
(* C28.  After successful bundle uploads and asset replacements on one      *)
(* prefix, without deletions and without another writer, each key in the    *)
(* stored manifest's keys that is not null names an object that exists in   *)
(* the bucket, and is the resolved key of {prefix}/{asset}.                 *)
(***************************************************************************)
C28_ManifestKeysExist ==
    ((BundleDone \/ ReplaceDone) /\ HasManifest(store, F.args)) =>
        LET m == ManifestIn(store, F.args)
        IN  \A a \in Assets :
              m["keys"][a] # None =>
                  /\ m["keys"][a] \in DOMAIN store
                  /\ m["keys"][a] =
                        ResolveKey(NormalizedPrefix(F.args.prefix, F.args.song_id)
                                   \o <<Slash, a>>)

\* C28: an asset replaced under a non-empty base path after a bundle upload
\* that had stored another asset
C28_Witness ==
    /\ ReplaceDone
    /\ base_path # <<>>
    /\ HasManifest(store, F.args)
    /\ \E a \in Assets \ {F.args.asset} : ManifestIn(store, F.args)["keys"][a] # None
    /\ ManifestIn(store, F.args)["keys"][F.args.asset] \in DOMAIN store

(***************************************************************************)
(* C29.  The manifest describes the whole bundle: after successful bundle   *)
(* uploads on one prefix, an asset whose slot in the current manifest's     *)
(* keys is null has no object stored at {prefix}/{asset}.                   *)
(* A bundle upload writes the assets it is given and a manifest of those    *)
(* alone, and removes nothing: an asset of an earlier upload stays stored   *)
(* and unlisted, and the statement is violated.                             *)
(***************************************************************************)
C29_UnlistedAssetsAbsent ==
    (BundleDone /\ HasManifest(store, F.args)) =>
        \A a \in Assets :
            ManifestIn(store, F.args)["keys"][a] = None =>
                ResolveKey(AssetKey(F.args.prefix, F.args.song_id, a)) \notin DOMAIN store

====
